---- MODULE Spec2Model ----
(***************************************************************************)
(* Model of the boppy/poppy reaction-network compiler and of its fluid     *)
(* approximation (boppy/simulators/fluid_approximation.py).                *)
(*                                                                         *)
(* Symbolic expressions are trees [h, v, s, a]: h is the sympy head        *)
(* ("Integer", "Symbol", "Mul", "Add", "Pow", "Max", ...), v the value of  *)
(* an Integer, s the name of a Symbol and a the tuple of arguments         *)
(* (sympy's .args; empty for atoms).  Numbers are exact rationals [n, d].  *)
(* The symbolic limit is modelled on expressions that are Laurent         *)
(* polynomials in N with N-free coefficients, which covers every rate      *)
(* function drawn below.                                                   *)
(***************************************************************************)
EXTENDS Integers, Sequences, FiniteSets, TLC

VARIABLES
    \* fluid_approximation: arguments of the call
    update_matrix, initial_conditions, rate_funcs_N, variables, system_size, t_max,
    \* fluid_approximation: position, number of calls started, locals of the frame
    pc, calls, var_to_substitute, d_initial_conditions, t, f_funcs, exponents,
    \* fluid_approximation: the integrator's call, standard output, return value
    integration, printed, result,
    \* observers: the caller's copy of initial_conditions, outcome of every call
    caller_ic, history,
    \* Reaction / ReactionCollection
    rx_species, reactions, declared, update_vectors, reaction_error, rx_pc,
    \* RateFunctionCollection
    rf_species, rf_functions, rf_state, rf_values, rf_error, rf_pc

fluid_vars == <<update_matrix, initial_conditions, rate_funcs_N, variables, system_size,
                t_max, pc, calls, var_to_substitute, d_initial_conditions, t, f_funcs,
                exponents, integration, printed, result, caller_ic, history>>
reaction_vars == <<rx_species, reactions, declared, update_vectors, reaction_error, rx_pc>>
rate_vars == <<rf_species, rf_functions, rf_state, rf_values, rf_error, rf_pc>>
vars == <<fluid_vars, reaction_vars, rate_vars>>

-----------------------------------------------------------------------------
(* Bounds of the model *)

MaxSpecies == 4
MaxReactions == 3
MaxRateList == 2
MaxCalls == 2
MaxCoef == 3
MaxTerms == 3

(* np.linspace(0, t_max, 1000) *)
GridPoints == 1000

None == [kind |-> "None"]

Min(a, b) == IF a <= b THEN a ELSE b

-----------------------------------------------------------------------------
(* Exact rationals: the values of Python's true division and of evalf *)

Abs(i) == IF i < 0 THEN -i ELSE i

RECURSIVE GCD(_, _)
GCD(a, b) == IF b = 0 THEN a ELSE GCD(b, a % b)

Frac(n, d) ==
    LET g == GCD(Abs(n), Abs(d))
        sgn == IF d < 0 THEN -1 ELSE 1
    IN  [n |-> sgn * (n \div g), d |-> sgn * (d \div g)]

RInt(i) == [n |-> i, d |-> 1]
RAdd(p, q) == Frac(p.n * q.d + q.n * p.d, p.d * q.d)
RMul(p, q) == Frac(p.n * q.n, p.d * q.d)
RLeq(p, q) == p.n * q.d <= q.n * p.d

-----------------------------------------------------------------------------
(* sympy expression trees *)

Node(h, v, s, a) == [h |-> h, v |-> v, s |-> s, a |-> a]
Integer(c) == Node("Integer", c, "", <<>>)
Symbol(name) == Node("Symbol", 0, name, <<>>)
Mul(args) == Node("Mul", 0, "", args)
Add(args) == Node("Add", 0, "", args)
Pow(b, k) == Node("Pow", 0, "", <<b, Integer(k)>>)
Max(args) == Node("Max", 0, "", args)
Sign(e) == Node("sign", 0, "", <<e>>)
Infinity == Node("Infinity", 0, "", <<>>)
NegativeInfinity == Node("NegativeInfinity", 0, "", <<>>)

(* N = sym.Symbol('N') *)
N == Symbol("N")

(* Python dict, in insertion order: a sequence of [k, v] items *)
HasKey(dict, k) == \E i \in 1..Len(dict) : dict[i].k = k
Lookup(dict, k) == dict[CHOOSE i \in 1..Len(dict) : dict[i].k = k].v
DictSet(dict, k, v) ==
    IF HasKey(dict, k)
    THEN [i \in 1..Len(dict) |-> IF dict[i].k = k THEN [k |-> k, v |-> v] ELSE dict[i]]
    ELSE Append(dict, [k |-> k, v |-> v])
DictValues(dict) == [i \in 1..Len(dict) |-> dict[i].v]

(* expr.subs(dict): every Symbol that is a key is replaced by its value *)
RECURSIVE subs(_, _)
subs(e, dict) ==
    IF e.h = "Symbol"
    THEN IF HasKey(dict, e) THEN Lookup(dict, e) ELSE e
    ELSE [e EXCEPT !.a = [i \in 1..Len(e.a) |-> subs(e.a[i], dict)]]

-----------------------------------------------------------------------------
(* sym.limit(e, N, oo) on Laurent polynomials in N.  A polynomial is a     *)
(* sequence of terms [deg, c]: c * N^deg with c free of N.                 *)

Factors(e) == IF e.h = "Mul" THEN e.a ELSE <<e>>
Terms(e) == IF e.h = "Add" THEN e.a ELSE <<e>>

CoefMul(a, b) ==
    IF a.h = "Integer" /\ b.h = "Integer" THEN Integer(a.v * b.v)
    ELSE IF a = Integer(0) \/ b = Integer(0) THEN Integer(0)
    ELSE IF a = Integer(1) THEN b
    ELSE IF b = Integer(1) THEN a
    ELSE Mul(Factors(a) \o Factors(b))

CoefAdd(a, b) ==
    IF a.h = "Integer" /\ b.h = "Integer" THEN Integer(a.v + b.v)
    ELSE IF a = Integer(0) THEN b
    ELSE IF b = Integer(0) THEN a
    ELSE Add(Terms(a) \o Terms(b))

LTimes(P, Q) ==
    [k \in 1..(Len(P) * Len(Q)) |->
        LET i == ((k - 1) \div Len(Q)) + 1
            j == ((k - 1) % Len(Q)) + 1
        IN  [deg |-> P[i].deg + Q[j].deg, c |-> CoefMul(P[i].c, Q[j].c)]]

RECURSIVE LProduct(_)
LProduct(Ps) ==
    IF Ps = <<>> THEN <<[deg |-> 0, c |-> Integer(1)]>>
    ELSE LTimes(Head(Ps), LProduct(Tail(Ps)))

RECURSIVE LSum(_)
LSum(Ps) == IF Ps = <<>> THEN <<>> ELSE Head(Ps) \o LSum(Tail(Ps))

RECURSIVE Laurent(_)
Laurent(e) ==
    CASE e.h = "Symbol" /\ e = N -> <<[deg |-> 1, c |-> Integer(1)]>>
      [] e.h = "Pow" /\ e.a[1] = N -> <<[deg |-> e.a[2].v, c |-> Integer(1)]>>
      [] e.h = "Mul" -> LProduct([i \in 1..Len(e.a) |-> Laurent(e.a[i])])
      [] e.h = "Add" -> LSum([i \in 1..Len(e.a) |-> Laurent(e.a[i])])
      [] OTHER -> <<[deg |-> 0, c |-> e]>>

RECURSIVE CoefAt(_, _)
CoefAt(P, d) ==
    IF P = <<>> THEN Integer(0)
    ELSE IF Head(P).deg = d THEN CoefAdd(Head(P).c, CoefAt(Tail(P), d))
    ELSE CoefAt(Tail(P), d)

InfinityTimes(c) ==
    IF c.h = "Integer"
    THEN IF c.v > 0 THEN Infinity ELSE NegativeInfinity
    ELSE Mul(<<Infinity, Sign(c)>>)

limit(e) ==
    LET P == Laurent(e)
        live == {d \in {P[i].deg : i \in 1..Len(P)} : CoefAt(P, d) # Integer(0)}
    IN  IF live = {} THEN Integer(0)
        ELSE LET top == CHOOSE d \in live : \A d2 \in live : d2 <= d
             IN  IF top < 0 THEN Integer(0)
                 ELSE IF top = 0 THEN CoefAt(P, 0)
                 ELSE InfinityTimes(CoefAt(P, top))

-----------------------------------------------------------------------------
(* expr.evalf(subs=env): a value [k, q]; k is "num" (a number q), "expr"   *)
(* (a symbol is left, the result is still an expression) or "nonfinite".   *)

Num(q) == [k |-> "num", q |-> q]
Unevaluated == [k |-> "expr", q |-> RInt(0)]
NonFinite == [k |-> "nonfinite", q |-> RInt(0)]

VMul(x, y) ==
    IF x.k = "nonfinite" \/ y.k = "nonfinite" THEN NonFinite
    ELSE IF x = Num(RInt(0)) \/ y = Num(RInt(0)) THEN Num(RInt(0))
    ELSE IF x.k = "num" /\ y.k = "num" THEN Num(RMul(x.q, y.q))
    ELSE Unevaluated

VAdd(x, y) ==
    IF x.k = "nonfinite" \/ y.k = "nonfinite" THEN NonFinite
    ELSE IF x.k = "num" /\ y.k = "num" THEN Num(RAdd(x.q, y.q))
    ELSE Unevaluated

VMax(x, y) ==
    IF x.k = "nonfinite" \/ y.k = "nonfinite" THEN NonFinite
    ELSE IF x.k = "num" /\ y.k = "num" THEN (IF RLeq(x.q, y.q) THEN y ELSE x)
    ELSE Unevaluated

VInv(x) ==
    IF x.k = "num" /\ x.q.n # 0 THEN Num(Frac(x.q.d, x.q.n))
    ELSE IF x.k = "expr" THEN Unevaluated
    ELSE NonFinite

RECURSIVE VPow(_, _)
VPow(x, k) ==
    IF k < 0 THEN VInv(VPow(x, -k))
    ELSE IF k = 0 THEN Num(RInt(1))
    ELSE VMul(x, VPow(x, k - 1))

RECURSIVE VProd(_)
VProd(xs) == IF xs = <<>> THEN Num(RInt(1)) ELSE VMul(Head(xs), VProd(Tail(xs)))

RECURSIVE VSum(_)
VSum(xs) == IF xs = <<>> THEN Num(RInt(0)) ELSE VAdd(Head(xs), VSum(Tail(xs)))

RECURSIVE VMaxAll(_)
VMaxAll(xs) == IF Len(xs) = 1 THEN xs[1] ELSE VMax(Head(xs), VMaxAll(Tail(xs)))

RECURSIVE evalf(_, _)
evalf(e, env) ==
    LET args == [i \in 1..Len(e.a) |-> evalf(e.a[i], env)]
    IN  CASE e.h = "Integer" -> Num(RInt(e.v))
          [] e.h = "Symbol" -> IF HasKey(env, e) THEN Num(Lookup(env, e)) ELSE Unevaluated
          [] e.h = "Mul" -> VProd(args)
          [] e.h = "Add" -> VSum(args)
          [] e.h = "Max" -> VMaxAll(args)
          [] e.h = "Pow" -> VPow(args[1], e.a[2].v)
          [] OTHER -> NonFinite

-----------------------------------------------------------------------------
(* fluid_approximation and its nested functions *)

(* boppy.core.Variable as the function reads it: .str_var and .symbol *)
Variable(name) == [str_var |-> name, symbol |-> Symbol(name)]
(* a rate function as the function reads it: .sym_function *)
RateFunction(e) == [sym_function |-> e]

variables_involved(rate_func) ==
    LET sym_rate_func == rate_func.sym_function
        args == sym_rate_func.a
    IN  SelectSeq(args, LAMBDA i : i.h = "Symbol")

RECURSIVE build_substitutor(_, _)
build_substitutor(values, dict) ==
    IF values = <<>> THEN dict
    ELSE build_substitutor(Tail(values),
             DictSet(dict, Head(values).symbol, Symbol("d_" \o Head(values).str_var)))

(* x / system_size, Python 3 true division *)
floordiv(x, size) == RInt(x \div size)
truediv(x, size) == Frac(x, size)

scale_initial_conditions(ic, size) == [i \in 1..Len(ic) |-> truediv(ic[i], size)]

(* the body of scaling's loop: one rate function to its limit f *)
f_limit_undivided(ratefun, substitutor_dict) ==
    LET n == Len(variables_involved(ratefun))
        substituted == subs(ratefun.sym_function, substitutor_dict)
    IN  limit(Mul(<<substituted, Pow(N, n)>>))
f_limit(ratefun, substitutor_dict) ==
    LET n == Len(variables_involved(ratefun))
        substituted == subs(ratefun.sym_function, substitutor_dict)
        ratefun_normalized == Mul(<<substituted, Pow(N, n)>>)
        f_N == Mul(<<ratefun_normalized, Pow(N, -1)>>)
    IN  limit(f_N)

RECURSIVE scaling_loop_prepend(_, _, _)
scaling_loop_prepend(rest, substitutor_dict, f_functions_vector) ==
    IF rest = <<>> THEN f_functions_vector
    ELSE scaling_loop_prepend(Tail(rest), substitutor_dict,
             <<f_limit(Head(rest), substitutor_dict)>> \o f_functions_vector)
RECURSIVE scaling_loop(_, _, _)
scaling_loop(rest, substitutor_dict, f_functions_vector) ==
    IF rest = <<>> THEN f_functions_vector
    ELSE scaling_loop(Tail(rest), substitutor_dict,
             Append(f_functions_vector, f_limit(Head(rest), substitutor_dict)))

scaling_stale(rate_functions_vector, substitutor_dict) ==
    scaling_loop(rate_functions_vector, substitutor_dict, f_funcs)
scaling(rate_functions_vector, substitutor_dict) ==
    scaling_loop(rate_functions_vector, substitutor_dict, <<>>)

(* the exponent n of N that scaling uses for each rate function *)
scaling_exponents(rate_functions_vector) ==
    [j \in 1..Len(rate_functions_vector) |->
        Len(variables_involved(rate_functions_vector[j]))]

linspace(start, stop, num) == [start |-> start, stop |-> stop, num |-> num]

(* zip(symbolic_functions_vector, np_matrix[i]) stops at the shorter one; *)
(* sum(foo) is the Add of the products f*elem                             *)
create_equations(np_matrix, symbolic_functions_vector) ==
    [i \in 1..Len(np_matrix) |->
        Add([k \in 1..Min(Len(symbolic_functions_vector), Len(np_matrix[i])) |->
                Mul(<<symbolic_functions_vector[k], Integer(np_matrix[i][k])>>)])]

(* One evaluation of the field: [raised, env, egg, equations].  The subs  *)
(* dict of line 73 reads foofoo[0..2] and x[0..2] (here 1..3).             *)
spamspamspam(x, time) ==
    LET foofoo == DictValues(var_to_substitute)
        equations == create_equations(update_matrix, f_funcs)
    IN  IF equations # <<>> /\ (Len(foofoo) < 3 \/ Len(x) < 3)
        THEN [raised |-> "IndexError", env |-> <<>>, egg |-> <<>>,
              equations |-> equations]
        ELSE LET env == DictSet(DictSet(DictSet(<<>>, foofoo[1], x[1]),
                                        foofoo[2], x[2]), foofoo[3], x[3])
             IN  [raised |-> "", env |-> env,
                  egg |-> [i \in 1..Len(equations) |-> evalf(equations[i], env)],
                  equations |-> equations]

(* scipy.integrate.odeint(func, y0, t): the field is evaluated at y0; an   *)
(* exception of func propagates, a component that is not a number or a     *)
(* result of another size than y0 is refused, otherwise the trajectory has *)
(* one row per grid point, the first being y0.                             *)
NoTrajectory == [rows |-> 0, cols |-> 0, row0 |-> <<>>]
odeint(y0, grid) ==
    LET first == spamspamspam(y0, grid.start)
        refused ==
            IF first.raised # "" THEN first.raised
            ELSE IF \E i \in 1..Len(first.egg) : first.egg[i].k = "expr" THEN "TypeError"
            ELSE IF Len(first.egg) # Len(y0) THEN "RuntimeError"
            ELSE ""
    IN  [raised |-> refused, y0 |-> y0, grid |-> grid, field |-> first,
         y |-> IF refused # "" THEN NoTrajectory
               ELSE [rows |-> grid.num, cols |-> Len(y0), row0 |-> y0]]

-----------------------------------------------------------------------------
(* Arguments of fluid_approximation *)

AllNames == <<"x_s", "x_i", "x_r", "x_q", "x_p">>
(* the registry of the tests: x_s, x_i, x_r *)
TestNames == SubSeq(AllNames, 1, 3)
Registry(n) == [i \in 1..n |-> Variable(AllNames[i])]
X(i) == Symbol(AllNames[i])

(* Rate functions over the first n species, with N symbolic: constants,   *)
(* a bare species, k*x, x*y/N, k*N, x*y/N + z, x**2/N.                     *)
RateExprs(n) ==
    {Integer(c) : c \in {-2, 0, 3}}
    \cup {X(i) : i \in 1..n}
    \cup {Mul(<<Integer(2), X(i)>>) : i \in 1..n}
    \cup {Mul(<<Integer(3), N>>), Mul(<<Pow(X(1), 2), Pow(N, -1)>>)}
    \cup {Mul(<<X(i), X(i + 1), Pow(N, -1)>>) : i \in 1..(n - 1)}
    \cup {Add(<<Mul(<<X(i), X(i + 1), Pow(N, -1)>>), X(((i + 1) % n) + 1)>>) :
              i \in 1..Min(1, n - 1)}

RateLists(m, n) == [1..m -> {RateFunction(e) : e \in RateExprs(n)}]
DefaultRates(m, n) ==
    [r \in 1..m |-> RateFunction(Mul(<<Integer(2), X(((r - 1) % n) + 1)>>))]

(* Update vectors of reaction r over n species: a conversion of species r *)
(* into the next one, its reverse, a birth or a death.                     *)
RowKinds == {"convert", "revert", "birth", "death"}
Row(kind, r, n) ==
    LET p == ((r - 1) % n) + 1
        q == (r % n) + 1
        at(i, pos, c) == IF i = pos THEN c ELSE 0
    IN  [i \in 1..n |->
            CASE kind = "convert" -> at(i, p, -1) + at(i, q, 1)
              [] kind = "revert" -> at(i, p, 1) + at(i, q, -1)
              [] kind = "birth" -> at(i, p, 1)
              [] OTHER -> at(i, p, -1)]
Matrix(kinds, n) == [r \in 1..Len(kinds) |-> Row(kinds[r], r, n)]
DefaultMatrix(m, n) == [r \in 1..m |-> Row("convert", r, n)]

Populations == {0, 20, 80}
SystemSizes == {1, 3, 100}
DefaultIC(n) == [i \in 1..n |-> 20 * i]

Config(M, ic, rates, n, size, horizon) ==
    [update_matrix |-> M, initial_conditions |-> ic, rate_functions_var_ss |-> rates,
     variables |-> Registry(n), system_size |-> size, t_max |-> horizon]

-----------------------------------------------------------------------------
(* The call fluid_approximation(update_matrix, initial_conditions,        *)
(* function_rate, t_max, **kwargs), in the order of its statements.        *)

Pending == [kind |-> "pending"]
NoIntegration ==
    [raised |-> "", y0 |-> <<>>, grid |-> linspace(0, 0, 0),
     field |-> [raised |-> "", env |-> <<>>, egg |-> <<>>, equations |-> <<>>],
     y |-> NoTrajectory]

FluidIdle(cfg) ==
    /\ update_matrix = cfg.update_matrix
    /\ initial_conditions = cfg.initial_conditions
    /\ rate_funcs_N = cfg.rate_functions_var_ss
    /\ variables = cfg.variables
    /\ system_size = cfg.system_size
    /\ t_max = cfg.t_max
    /\ pc = "idle"
    /\ calls = 0
    /\ var_to_substitute = <<>>
    /\ d_initial_conditions = <<>>
    /\ t = linspace(0, 0, 0)
    /\ f_funcs = <<>>
    /\ exponents = <<>>
    /\ integration = NoIntegration
    /\ printed = <<>>
    /\ result = Pending
    /\ caller_ic = cfg.initial_conditions
    /\ history = <<>>

(* lines 13-31: kwargs, var_to_substitute, d_initial_conditions *)
Setup ==
    /\ pc \in {"idle", "returned", "raised"}
    /\ calls < MaxCalls
    /\ calls' = calls + 1
    /\ var_to_substitute' = build_substitutor(variables, <<>>)
    /\ d_initial_conditions' = scale_initial_conditions(initial_conditions, system_size)
    /\ result' = Pending
    /\ pc' = "setup"
    /\ UNCHANGED <<update_matrix, initial_conditions, rate_funcs_N, variables, system_size,
                   t_max, t, f_funcs, exponents, integration, printed, caller_ic, history>>

(* lines 53-55: t = np.linspace(...); f_funcs = scaling(...) *)
Derive ==
    /\ pc = "setup"
    /\ t' = linspace(0, t_max, GridPoints)
    /\ f_funcs' = scaling(rate_funcs_N, var_to_substitute)
    /\ exponents' = scaling_exponents(rate_funcs_N)
    /\ pc' = "derived"
    /\ UNCHANGED <<update_matrix, initial_conditions, rate_funcs_N, variables, system_size,
                   t_max, calls, var_to_substitute, d_initial_conditions, integration,
                   printed, result, caller_ic, history>>

Outcome(out) == [f_funcs |-> f_funcs, field |-> out.field, raised |-> out.raised]

(* line 77: print(odeint(spamspamspam, d_initial_conditions, t)) *)
Integrate ==
    /\ pc = "derived"
    /\ LET out == odeint(d_initial_conditions, t)
       IN  /\ integration' = out
           /\ history' = Append(history, Outcome(out))
           /\ out.raised = ""
           /\ printed' = Append(printed, out.y)
           /\ pc' = "printed"
    /\ UNCHANGED <<update_matrix, initial_conditions, rate_funcs_N, variables, system_size,
                   t_max, calls, var_to_substitute, d_initial_conditions, t, f_funcs,
                   exponents, result, caller_ic>>

(* line 77, when the field or the integrator raises: the call ends there *)
IntegrateRaises ==
    /\ pc = "derived"
    /\ LET out == odeint(d_initial_conditions, t)
       IN  /\ integration' = out
           /\ history' = Append(history, Outcome(out))
           /\ out.raised # ""
           /\ pc' = "raised"
    /\ UNCHANGED <<update_matrix, initial_conditions, rate_funcs_N, variables, system_size,
                   t_max, calls, var_to_substitute, d_initial_conditions, t, f_funcs,
                   exponents, printed, result, caller_ic>>

(* line 78: return *)
Return ==
    /\ pc = "printed"
    /\ result' = None
    /\ pc' = "returned"
    /\ UNCHANGED <<update_matrix, initial_conditions, rate_funcs_N, variables, system_size,
                   t_max, calls, var_to_substitute, d_initial_conditions, t, f_funcs,
                   exponents, integration, printed, caller_ic, history>>

ReactionIdle ==
    /\ rx_species = <<>>
    /\ reactions = <<>>
    /\ declared = <<>>
    /\ update_vectors = <<>>
    /\ reaction_error = ""
    /\ rx_pc = "idle"

RatesIdle ==
    /\ rf_species = <<>>
    /\ rf_functions = <<>>
    /\ rf_state = <<>>
    /\ rf_values = <<>>
    /\ rf_error = ""
    /\ rf_pc = "idle"

(* Calls on the test registry with every list of rate functions, calls   *)
(* with every update matrix over 1..MaxSpecies species, and calls with    *)
(* every initial population and system size.                               *)
RateCalls ==
    LET n == Len(TestNames)
    IN  \E m \in 1..MaxRateList : \E rates \in RateLists(m, n) :
            FluidIdle(Config(DefaultMatrix(m, n), DefaultIC(n), rates, n, 100, 10))

MatrixCalls ==
    \E n \in 1..MaxSpecies : \E m \in 1..MaxReactions : \E kinds \in [1..m -> RowKinds] :
        FluidIdle(Config(Matrix(kinds, n), DefaultIC(n), DefaultRates(m, n), n, 100, 10))

PopulationCalls ==
    \E n \in 1..MaxSpecies : \E ic \in [1..n -> Populations] : \E size \in SystemSizes :
        FluidIdle(Config(DefaultMatrix(n, n), ic, DefaultRates(n, n), n, size, 10))

Init == (RateCalls \/ MatrixCalls \/ PopulationCalls) /\ ReactionIdle /\ RatesIdle

Next ==
    \/ Setup /\ UNCHANGED <<reaction_vars, rate_vars>>
    \/ Derive /\ UNCHANGED <<reaction_vars, rate_vars>>
    \/ Integrate /\ UNCHANGED <<reaction_vars, rate_vars>>
    \/ IntegrateRaises /\ UNCHANGED <<reaction_vars, rate_vars>>
    \/ Return /\ UNCHANGED <<reaction_vars, rate_vars>>

Spec == Init /\ [][Next]_vars

-----------------------------------------------------------------------------
(* Properties of fluid_approximation *)

Derived == pc \in {"derived", "printed", "raised", "returned"}
Integrated == pc \in {"printed", "raised", "returned"}

RECURSIVE SymbolsOf(_)
SymbolsOf(e) ==
    IF e.h = "Symbol" THEN {e} ELSE UNION {SymbolsOf(e.a[i]) : i \in 1..Len(e.a)}

SpeciesSymbols == {variables[i].symbol : i \in 1..Len(variables)}
SpeciesReferenced(e) == SymbolsOf(e) \cap SpeciesSymbols

(* the factor of limit field r in an assembled equation (0 when absent) *)
Coefficient(equation, r) == IF r <= Len(equation.a) THEN equation.a[r].a[2].v ELSE 0

(* C1 (as claimed): the assembled vector field has one component per      *)
(* species, and in the component of species i the limit field of reaction *)
(* r is multiplied by update_matrix[r][i].                                 *)
C1_FieldIsTransposedProduct ==
    (Integrated /\ integration.field.raised = "") =>
        LET equations == integration.field.equations
        IN  /\ Len(equations) = Len(variables)
            /\ \A i \in 1..Len(variables) : \A r \in 1..Len(f_funcs) :
                   Coefficient(equations[i], r) = update_matrix[r][i]

(* C2 (as claimed): a call that completes returns the time grid of 1000   *)
(* points with the trajectory (one row per grid point, one column per     *)
(* species), never an absent result.                                       *)
C2_ReturnsGridAndTrajectory ==
    pc = "returned" =>
        /\ result.kind = "tuple"
        /\ result.t = linspace(0, t_max, GridPoints)
        /\ result.y = integration.y

(* C3 (as claimed): the exponent of N used for a rate expression is the   *)
(* number of distinct species symbols the expression references, wherever *)
(* they occur, and it is 0 exactly when it references none.                *)
C3_ExponentCountsReferencedSpecies ==
    Derived =>
        \A j \in 1..Len(rate_funcs_N) :
            exponents[j] = Cardinality(SpeciesReferenced(rate_funcs_N[j].sym_function))

(* C4 (as claimed): the limit field of a pure constant c is c itself. *)
C4_ConstantLimitsToItself ==
    Derived =>
        \A j \in 1..Len(rate_funcs_N) :
            rate_funcs_N[j].sym_function.h = "Integer" =>
                f_funcs[j] = rate_funcs_N[j].sym_function

(* C4 (amended): the limit field of a pure constant c is 0, the limit of  *)
(* c * N^0 / N.                                                            *)
C4_ConstantLimitsToZero ==
    Derived =>
        \A j \in 1..Len(rate_funcs_N) :
            rate_funcs_N[j].sym_function.h = "Integer" => f_funcs[j] = Integer(0)

C4_Witness ==
    /\ Derived
    /\ \E j \in 1..Len(rate_funcs_N) :
           /\ rate_funcs_N[j].sym_function = Integer(-2)
           /\ f_funcs[j] = Integer(0)

(* C5: when scaling has returned, it has produced one limit field per     *)
(* rate function in the input order, element j being the limit derived    *)
(* from rate function j alone.                                             *)
C5_OneLimitPerRateFunctionInOrder ==
    pc = "derived" =>
        /\ Len(f_funcs) = Len(rate_funcs_N)
        /\ \A j \in 1..Len(rate_funcs_N) :
               f_funcs[j] = scaling(<<rate_funcs_N[j]>>, var_to_substitute)[1]

C5_Witness ==
    /\ pc = "derived"
    /\ Len(rate_funcs_N) >= 2
    /\ f_funcs[1] # f_funcs[2]
    /\ f_funcs[2] = Mul(<<Symbol("d_x_s"), Symbol("d_x_i")>>)

(* C6: the initial state handed to the integrator has the length of       *)
(* initial_conditions, its component i is initial_conditions[i] divided   *)
(* by system_size, and the caller's initial_conditions is unchanged.      *)
C6_InitialDensities ==
    Integrated =>
        /\ Len(integration.y0) = Len(initial_conditions)
        /\ \A i \in 1..Len(initial_conditions) :
               RMul(integration.y0[i], RInt(system_size)) = RInt(initial_conditions[i])
        /\ initial_conditions = caller_ic

C6_Witness ==
    /\ Integrated
    /\ system_size = 3
    /\ initial_conditions = <<20, 0, 80>>
    /\ integration.y0 = <<Frac(20, 3), RInt(0), Frac(80, 3)>>

(* C9: calls on identical arguments derive identical limit fields and     *)
(* evaluate the field identically: nothing a call wrote is read by a      *)
(* later one.                                                              *)
C9_CallsAgree ==
    \A a \in 1..Len(history) : \A b \in 1..Len(history) : history[a] = history[b]

C9_Witness ==
    /\ Len(history) >= 2
    /\ history[2].raised = ""
    /\ Len(history[2].f_funcs) = 3

(* C10 (as claimed): for every number n >= 1 of species, an evaluation of *)
(* the field at x substitutes x[j] for the density symbol of every        *)
(* species j and leaves no density symbol in any equation.                 *)
C10_EverySpeciesSubstituted ==
    Integrated =>
        LET field == integration.field
        IN  /\ field.raised = ""
            /\ \A j \in 1..Len(variables) :
                   LET dens_symbol == Lookup(var_to_substitute, variables[j].symbol)
                   IN  /\ HasKey(field.env, dens_symbol)
                       /\ Lookup(field.env, dens_symbol) = integration.y0[j]
            /\ \A i \in 1..Len(field.egg) : field.egg[i].k # "expr"

-----------------------------------------------------------------------------
(* Reaction and ReactionCollection (poppy.core).  A reaction string is the *)
(* sequence of its whitespace-separated words: "+", "=>" and terms, a term *)
(* being an optional run of digits followed by a species name.             *)

Word(kind, digits, name) == [t |-> kind, digits |-> digits, name |-> name]
Plus == Word("+", "", "")
Arrow == Word("=>", "", "")

(* a declared term: coef = 0 stands for no written coefficient *)
Term(coef, name) == [coef |-> coef, name |-> name]
Written(term) ==
    Word("term", IF term.coef = 0 THEN "" ELSE ToString(term.coef), term.name)

RECURSIVE JoinTerms(_)
JoinTerms(terms) ==
    IF Len(terms) = 1 THEN <<Written(terms[1])>>
    ELSE <<Written(terms[1]), Plus>> \o JoinTerms(Tail(terms))

ReactionString(decl) == JoinTerms(decl.reactants) \o <<Arrow>> \o JoinTerms(decl.products)

(* str.split on a separator word *)
RECURSIVE Split(_, _, _)
Split(words, sep, current) ==
    IF words = <<>> THEN <<current>>
    ELSE IF Head(words) = sep THEN <<current>> \o Split(Tail(words), sep, <<>>)
    ELSE Split(Tail(words), sep, Append(current, Head(words)))

(* the leading integer multiplier of a term, 1 when none is written *)
multiplier_always_one(word) == 1
multiplier(word) ==
    IF word.digits = "" THEN 1
    ELSE CHOOSE c \in 0..(MaxCoef + 1) : ToString(c) = word.digits

position(names, name) ==
    IF \E i \in 1..Len(names) : names[i] = name
    THEN CHOOSE i \in 1..Len(names) : names[i] = name
    ELSE 0

(* the words of one side of the arrow, "+" dropped *)
side_terms(words) ==
    LET parts == Split(words, Plus, <<>>)
    IN  [i \in 1..Len(parts) |-> parts[i][1]]

reagents(string) ==
    LET sides == Split(string, Arrow, <<>>)
    IN  [reactants |-> side_terms(sides[1]), products |-> side_terms(sides[2])]

unresolved(string, names) ==
    LET r == reagents(string)
        all == r.reactants \o r.products
    IN  SelectSeq(all, LAMBDA w : position(names, w.name) = 0)

RECURSIVE apply_terms(_, _, _, _)
apply_terms(terms, names, sign, vector) ==
    IF terms = <<>> THEN vector
    ELSE LET i == position(names, Head(terms).name)
         IN  apply_terms(Tail(terms), names, sign,
                 [vector EXCEPT ![i] = @ + sign * multiplier(Head(terms))])

update_vector(string, names) ==
    LET r == reagents(string)
        zeros == [i \in 1..Len(names) |-> 0]
    IN  apply_terms(r.products, names, 1, apply_terms(r.reactants, names, -1, zeros))

reagent_error(name) ==
    "Unable to find reagent '" \o name \o "' inside the list of variables"

(* Declared reactions *)
Coefs == 0..MaxCoef
TermsOver(names) == {Term(c, names[i]) : c \in Coefs, i \in 1..Len(names)}
Shapes == {s \in (1..MaxTerms) \X (1..MaxTerms) : s[1] + s[2] <= MaxTerms}
(* x_s => x_i,  x_s + x_i => x_r,  3x_s + x_i => x_r,                      *)
(* x_s + x_i => x_i + x_i,  R1 + R2 => 2 P1                                *)
TestDeclarations ==
    {[reactants |-> <<Term(0, "x_s")>>, products |-> <<Term(0, "x_i")>>],
     [reactants |-> <<Term(0, "x_s"), Term(0, "x_i")>>, products |-> <<Term(0, "x_r")>>],
     [reactants |-> <<Term(3, "x_s"), Term(0, "x_i")>>, products |-> <<Term(0, "x_r")>>],
     [reactants |-> <<Term(0, "x_s"), Term(0, "x_i")>>,
      products |-> <<Term(0, "x_i"), Term(0, "x_i")>>],
     [reactants |-> <<Term(0, "R1"), Term(0, "R2")>>, products |-> <<Term(2, "P1")>>]}

ReactionStart(names, decls) ==
    /\ rx_species = names
    /\ declared = decls
    /\ reactions = [k \in 1..Len(decls) |-> ReactionString(decls[k])]
    /\ update_vectors = <<>>
    /\ reaction_error = ""
    /\ rx_pc = "idle"

FirstUnresolved ==
    LET bad == {k \in 1..Len(reactions) : unresolved(reactions[k], rx_species) # <<>>}
    IN  IF bad = {} THEN 0 ELSE CHOOSE k \in bad : \A k2 \in bad : k <= k2

(* ReactionCollection(reactions, species): every Reaction is built, in order *)
BuildReactions ==
    /\ rx_pc = "idle"
    /\ FirstUnresolved = 0
    /\ update_vectors' = [k \in 1..Len(reactions) |-> update_vector(reactions[k], rx_species)]
    /\ rx_pc' = "built"
    /\ UNCHANGED <<rx_species, reactions, declared, reaction_error>>

(* a reagent that is no declared species: ValueError at construction *)
BuildReactionsFails ==
    /\ rx_pc = "idle"
    /\ FirstUnresolved # 0
    /\ reaction_error' =
           reagent_error(unresolved(reactions[FirstUnresolved], rx_species)[1].name)
    /\ rx_pc' = "raised"
    /\ UNCHANGED <<rx_species, reactions, declared, update_vectors>>

(* declared coefficient of a species on one side, a missing one being 1 *)
RECURSIVE CoefSum(_, _)
CoefSum(terms, name) ==
    IF terms = <<>> THEN 0
    ELSE (IF Head(terms).name # name THEN 0
          ELSE IF Head(terms).coef = 0 THEN 1
          ELSE Head(terms).coef) + CoefSum(Tail(terms), name)

(* C7: for reactions whose species all resolve in a registry of n species *)
(* every update vector has length n, its entry i is the sum of the        *)
(* product coefficients of species i minus the sum of its reactant        *)
(* coefficients (a missing coefficient is 1), and the collection yields   *)
(* the vectors in declaration order.                                       *)
C7_UpdateVectors ==
    rx_pc = "built" =>
        /\ Len(update_vectors) = Len(declared)
        /\ \A k \in 1..Len(declared) :
               /\ Len(update_vectors[k]) = Len(rx_species)
               /\ \A i \in 1..Len(rx_species) :
                      update_vectors[k][i] =
                          CoefSum(declared[k].products, rx_species[i])
                          - CoefSum(declared[k].reactants, rx_species[i])

C7_Witness ==
    /\ rx_pc = "built"
    /\ Len(rx_species) = 4
    /\ update_vectors = <<<<-3, -1, 1, 0>>, <<-1, 1, 0, 0>>, <<-1, 1, 0, 0>>>>
    /\ declared[3].products = <<Term(0, "x_i"), Term(0, "x_i")>>

-----------------------------------------------------------------------------
(* RateFunctionCollection.__call__ (poppy.core) *)

shape_message(k, m) ==
    "Array shapes mismatch: input vector " \o ToString(k)
        \o ", rate functions " \o ToString(m) \o "."

(* the size the state vector is compared with: the rate-function count *)
expected_size_species == Len(rf_species)
expected_size == Len(rf_functions)

(* every species symbol with the matching component of the state *)
state_env(species, state) ==
    [i \in 1..Len(species) |->
        [k |-> species[i].symbol, v |-> RInt(state[i])]]

(* Rate functions over the first n species after parameter substitution   *)
(* (k_i = 1, N = 100): a constant, x, k*x, x*y/100, max(x, y), x + y.      *)
RfExprs(n) ==
    {Integer(-2)}
    \cup {X(i) : i \in 1..n}
    \cup {Mul(<<Integer(2), X(i)>>) : i \in 1..n}
    \cup {Mul(<<Pow(Integer(100), -1), X(i), X(i + 1)>>) : i \in 1..(n - 1)}
    \cup {Max(<<X(i), X(i + 1)>>) : i \in 1..Min(1, n - 1)}
    \cup {Add(<<X(1), X(n)>>)}

RatesStart(species, functions, state) ==
    /\ rf_species = species
    /\ rf_functions = functions
    /\ rf_state = state
    /\ rf_values = <<>>
    /\ rf_error = ""
    /\ rf_pc = "idle"

Evaluate ==
    /\ rf_pc = "idle"
    /\ Len(rf_state) = expected_size
    /\ rf_values' = [j \in 1..Len(rf_functions) |->
                        evalf(rf_functions[j].sym_function, state_env(rf_species, rf_state))]
    /\ rf_pc' = "evaluated"
    /\ UNCHANGED <<rf_species, rf_functions, rf_state, rf_error>>

EvaluateFails ==
    /\ rf_pc = "idle"
    /\ Len(rf_state) # expected_size
    /\ rf_error' = shape_message(Len(rf_state), Len(rf_functions))
    /\ rf_pc' = "raised"
    /\ UNCHANGED <<rf_species, rf_functions, rf_state, rf_values>>

C8_WitnessMismatch ==
    /\ rf_pc = "raised"
    /\ Len(rf_state) = Len(rf_species)
    /\ rf_error = "Array shapes mismatch: input vector 3, rate functions 2."

-----------------------------------------------------------------------------
(* Specifications of the compiler's two collections *)

DefaultConfig ==
    LET n == Len(TestNames)
    IN  Config(DefaultMatrix(n, n), DefaultIC(n), DefaultRates(n, n), n, 100, 10)

(* One reaction of every shape over the test registry, and collections of *)
(* the tests' reactions over registries that hold the test registry.       *)
SingleReactions ==
    \E s \in Shapes :
        \E l \in [1..s[1] -> TermsOver(TestNames)], r \in [1..s[2] -> TermsOver(TestNames)] :
            ReactionStart(TestNames, <<[reactants |-> l, products |-> r]>>)

Collections ==
    \E n \in Len(TestNames)..MaxSpecies : \E m \in 1..MaxReactions :
        \E decls \in [1..m -> TestDeclarations] :
            ReactionStart(SubSeq(AllNames, 1, n), decls)

InitReaction ==
    (SingleReactions \/ Collections) /\ FluidIdle(DefaultConfig) /\ RatesIdle

NextReaction ==
    \/ BuildReactions /\ UNCHANGED <<fluid_vars, rate_vars>>
    \/ BuildReactionsFails /\ UNCHANGED <<fluid_vars, rate_vars>>

SpecReaction == InitReaction /\ [][NextReaction]_vars

(* Every list of m rate functions over n species on states of length k   *)
(* that either differ in length from the list or hold a component for     *)
(* every species (section 4.3 of the specification defines the result of  *)
(* no other call), and n rate functions over n species on every state of  *)
(* length n.                                                              *)
RateListCalls ==
    \E n \in 1..MaxSpecies : \E m \in 1..MaxRateList : \E k \in 1..MaxSpecies :
        /\ k # m \/ k >= n
        /\ \E fs \in [1..m -> {RateFunction(e) : e \in RfExprs(n)}] :
               RatesStart(Registry(n), fs, DefaultIC(k))

StateCalls ==
    \E n \in 1..MaxSpecies : \E x \in [1..n -> Populations] :
        RatesStart(Registry(n), DefaultRates(n, n), x)

InitRates == (RateListCalls \/ StateCalls) /\ FluidIdle(DefaultConfig) /\ ReactionIdle

NextRates ==
    \/ Evaluate /\ UNCHANGED <<fluid_vars, reaction_vars>>
    \/ EvaluateFails /\ UNCHANGED <<fluid_vars, reaction_vars>>

SpecRates == InitRates /\ [][NextRates]_vars

=============================================================================
